---- MODULE Spec2Model ----
(***************************************************************************)
(* DataManager (src/src/DataManager/DataManager.py): the data collection   *)
(* store, the train/validation/test partitioner, the accessors and the     *)
(* compilation of extracted features into an HDF5 container.               *)
(*                                                                         *)
(* Fractions are counted in tenths (6 is 0.6).  int(p * m) of the source   *)
(* is a float product truncated; for p a multiple of 0.1 and m < 90 it     *)
(* equals (10p * m) \div 10, which is how IntOfProduct computes it.        *)
(***************************************************************************)
EXTENDS Integers, Sequences, FiniteSets, TLC

\* ------------------------------------------------------------- bounds
MaxSubjects == 5      \* a loader returns at most this many subjects
MaxCalls == 2         \* calls made on the object after its construction
MaxYield == 2         \* batches the feature extractor yields in one compile
RngMod == 3           \* number of states of the random generator

\* ------------------------------------------------------------- registry
ADNI == "ADNI"
FIG_SHARE == "FigShare"
BRATS == "BRATS"

supported_datasets == {ADNI, FIG_SHARE, BRATS}

\* A name no registry entry exists for.
UNREGISTERED == "OASIS"
DatasetNames == supported_datasets \cup {UNREGISTERED}

information ==
    [d \in supported_datasets |->
        [key |-> IF d = FIG_SHARE THEN "Patient ID" ELSE "Subject",
         data_filepath |-> IF d = ADNI THEN "ADNI/MRI data/"
                           ELSE IF d = FIG_SHARE THEN "/1512427/" ELSE "/BRATS/"]]

\* Default fractions of train_validate_test_split, in tenths.
DefaultTrain == 6
DefaultValid == 2

NoSeed == <<>>
Seeds == {NoSeed, <<0>>, <<1>>}
\* <<train_percent, valid_percent>> given to a split; the second sums above 1.
FractionPairs == {<<DefaultTrain, DefaultValid>>, <<DefaultTrain, 10>>}
ColumnNames == {"Subject", "Patient ID", "Group"}

\* ------------------------------------------------------------- loaders
\* read_CSV returns a table with named columns; the file-map builders return
\* a mapping.  Both are indexed by the registry's key column, which holds the
\* subject identifiers, unique within one dataset.
Subjects(m) == [i \in 1..m |-> i]

\* What a loader finds when it is called: none, nearly the most, the most.
\* (A loader that raises leaves the stores as the datasets before it left them.)
SubjectCounts == {0, MaxSubjects - 1, MaxSubjects}

Loader(dataset, m) ==
    [backing |-> IF dataset = ADNI THEN "table" ELSE "filemap",
     column |-> (information[dataset].key :> Subjects(m))]

\* ------------------------------------------------------------- helpers
\* Python's s[a:b] for 0 <= a, 0 <= b: the elements at 0-based positions
\* a .. b-1 that exist.
Slice(s, a, b) ==
    LET hi == IF b < Len(s) THEN b ELSE Len(s)
    IN  IF a >= hi THEN <<>> ELSE [i \in 1..(hi - a) |-> s[a + i]]

Range(s) == {s[i] : i \in DOMAIN s}

IntOfProduct(tenths, m) == (tenths * m) \div 10

\* ------------------------------------------------------------- generator
\* numpy's global generator: a deterministic state machine.  seed(s) sets the
\* state from s alone; every draw advances it.
SeedState(s) == s % RngMod
NextRng(r) == (r + 1) % RngMod

Swap(arr, i, j) == [arr EXCEPT ![i] = arr[j], ![j] = arr[i]]

\* np.random.permutation: a copy shuffled from the last position down, each
\* position exchanged with a drawn position at or below it.
RECURSIVE shuffle(_, _, _)
shuffle(arr, i, r) ==
    IF i < 2 THEN [arr |-> arr, rng |-> r]
    ELSE LET r1 == NextRng(r)
             j == (r1 % i) + 1
         IN  shuffle(Swap(arr, i, j), i - 1, r1)

permutation(data, r) == shuffle(data, Len(data), r)

\* ------------------------------------------------------------- partitioner
SeedGivenTruthy(seed) == seed # NoSeed /\ seed[1] # 0
\* line 119: `if not seed is None`
SeedGiven(seed) == seed # NoSeed

TrainEnd(train_percent, m) == IntOfProduct(train_percent, m)

ValidEndNoOffset(valid_percent, m, train_end) == IntOfProduct(valid_percent, m)
\* line 127
ValidEnd(valid_percent, m, train_end) == IntOfProduct(valid_percent, m) + train_end

TestSliceFromTrainEnd(perm, train_end, valid_end) == Slice(perm, train_end, Len(perm))
\* line 128: perm[valid_end:]
TestSlice(perm, train_end, valid_end) == Slice(perm, valid_end, Len(perm))

\* The whole of train_validate_test_split on stores dc, ds and generator r.
train_validate_test_split(dc, ds, r, dataset, column_header, train_percent, valid_percent, seed) ==
    LET r0 == IF SeedGiven(seed) THEN SeedState(seed[1]) ELSE r
    IN  IF dataset \notin DOMAIN dc
        THEN [status |-> "KeyError", data_splits |-> ds, rng |-> r0]
        ELSE IF column_header \notin DOMAIN dc[dataset].column
        THEN [status |-> "KeyError", data_splits |-> ds, rng |-> r0]
        ELSE LET data == dc[dataset].column[column_header]
                 sh == permutation(data, r0)
                 perm == sh.arr
                 m == Len(data)
                 train_end == TrainEnd(train_percent, m)
                 valid_end == ValidEnd(valid_percent, m, train_end)
                 train == Slice(perm, 0, train_end)
                 valid == Slice(perm, train_end, valid_end)
                 test == TestSlice(perm, train_end, valid_end)
             IN  [status |-> "ok",
                  data_splits |-> (dataset :> <<train, valid, test>>) @@ ds,
                  rng |-> sh.rng]

\* ------------------------------------------------------------- add_datasets
\* The loop of add_datasets over `datasets`; loads[i] is what the loader of
\* the i-th dataset does when it is called.
RECURSIVE add_loop(_, _, _, _, _)
add_loop(datasets, loads, dc, ds, r) ==
    IF datasets = <<>>
    THEN [status |-> "ok", dataCollection |-> dc, data_splits |-> ds, rng |-> r]
    ELSE LET dataset == Head(datasets)
             load == Head(loads)
         IN  LET dc1 == IF dataset \in supported_datasets
                             THEN (dataset :> Loader(dataset, load)) @@ dc
                             ELSE dc
                  IN  IF dataset \notin DOMAIN information
                      THEN [status |-> "KeyError", dataCollection |-> dc1,
                            data_splits |-> ds, rng |-> r]
                      ELSE LET s == train_validate_test_split(
                                        dc1, ds, r, dataset, information[dataset].key,
                                        DefaultTrain, DefaultValid, NoSeed)
                           IN  IF s.status # "ok"
                               THEN [status |-> s.status, dataCollection |-> dc1,
                                     data_splits |-> s.data_splits, rng |-> s.rng]
                               ELSE add_loop(Tail(datasets), Tail(loads), dc1,
                                             s.data_splits, s.rng)

\* Lists given to add_datasets: none, one dataset, or an unregistered name
\* with one dataset before or after it.
Batches ==
    {<<>>} \cup {<<a>> : a \in DatasetNames}
           \cup {<<a, UNREGISTERED>> : a \in DatasetNames}
           \cup {<<UNREGISTERED, a>> : a \in DatasetNames}

\* ------------------------------------------------------------- accessors
Absent == [status |-> "ok", present |-> FALSE, value |-> <<>>]

get_data(dc, dataset, key) ==
    IF dataset \in DOMAIN dc
    THEN IF dc[dataset].backing # "table"
         THEN [status |-> "AttributeError", present |-> FALSE, value |-> <<>>]
         ELSE IF key \in DOMAIN dc[dataset].column
              THEN [status |-> "ok", present |-> TRUE, value |-> dc[dataset].column[key]]
              ELSE Absent
    ELSE Absent

\* get_keys: .keys() of the stored table or mapping.
get_keys(dc, dataset) ==
    IF dataset \in DOMAIN dc
    THEN [status |-> "ok", present |-> TRUE, value |-> DOMAIN dc[dataset].column]
    ELSE [status |-> "ok", present |-> FALSE, value |-> {}]

\* ------------------------------------------------------------- state
VARIABLES
    dataCollection,   \* self.dataCollection: dataset name -> loaded table or mapping
    data_splits,      \* self.data_splits: dataset name -> <<train, validation, test>>
    rng,              \* state of numpy's global generator
    calls,            \* calls made on the object so far
    call,             \* the call in progress, or the last one made
    result,           \* how the last call ended and what it returned
    seeded,           \* the first seeded split made: its key, its result
    pc,               \* "idle" between calls, else the place inside compile_dataset
    params,           \* compile_dataset's argument
    container,        \* the file experiments/<database_name>.h5
    atCall,           \* the container as it was when the last call began
    outer_ix,         \* count of the enumerate over the three split names
    ix,               \* the variable ix, bound by both loops of compile_dataset
    data_split,       \* the variable data_split
    inner_ix,         \* count of the enumerate over the extractor's batches
    yields,           \* batches the extractor yielded during this compile
    log               \* extractor calls and batches of this compile, in order

storeVars == <<dataCollection, data_splits, rng, seeded>>
vars == <<dataCollection, data_splits, rng, calls, call, result, seeded, pc, params,
          container, atCall, outer_ix, ix, data_split, inner_ix, yields, log>>

NoValue == [status |-> "ok", present |-> FALSE, value |-> <<>>]
Raised(e) == [status |-> e, present |-> FALSE, value |-> <<>>]

Call(name, dataset, column, tp, vp, seed) ==
    [name |-> name, dataset |-> dataset, column |-> column, train_percent |-> tp,
     valid_percent |-> vp, seed |-> seed,
     repeat |-> FALSE, perturbed |-> FALSE]

\* ------------------------------------------------------------- construction
\* An output file of an earlier run of the program.
OldContainer ==
    [exists |-> TRUE, open |-> FALSE,
     attrs |-> ("dataset" :> <<"old">>),
     entries |-> ("train_image_0" :> [batch |-> 0, feature |-> "image"])]
NoContainer ==
    [exists |-> FALSE, open |-> FALSE, attrs |-> <<>>, entries |-> <<>>]

\* __init__(filepath, datasets): every dataset is checked against
\* supported_datasets first (NameError, no object), then add_datasets runs;
\* an object exists only when neither raised.  The generator starts in any
\* state.  The constructor is given at most one dataset here; a longer list
\* runs the same loop, as AddDatasets does.
Constructed ==
    /\ \E datasets \in Batches, r \in 0..(RngMod - 1) :
         \E loads \in [1..Len(datasets) -> SubjectCounts] :
            LET a == add_loop(datasets, loads, <<>>, <<>>, r)
            IN  /\ Len(datasets) <= 1
                /\ \A i \in 1..Len(datasets) : datasets[i] \in supported_datasets
                /\ a.status = "ok"
                /\ dataCollection = a.dataCollection
                /\ data_splits = a.data_splits
                /\ rng = a.rng
                /\ call = Call("__init__", "", "", 0, 0, NoSeed)
    /\ calls = 0
    /\ result = NoValue
    /\ seeded = <<>>
    /\ pc = "idle"
    /\ params = <<>>
    /\ atCall = container
    /\ outer_ix = 0
    /\ ix = 0
    /\ data_split = ""
    /\ inner_ix = 0
    /\ yields = 0
    /\ log = <<>>

Init ==
    /\ container = NoContainer
    /\ Constructed

\* ------------------------------------------------------------- store calls
AddDatasets ==
    /\ pc = "idle"
    /\ calls < MaxCalls
    /\ \E datasets \in Batches :
         \E loads \in [1..Len(datasets) -> SubjectCounts] :
            LET a == add_loop(datasets, loads, dataCollection, data_splits, rng)
            IN  /\ dataCollection' = a.dataCollection
                /\ data_splits' = a.data_splits
                /\ rng' = a.rng
                /\ result' = Raised(a.status)
                /\ call' = Call("add_datasets", "", "", 0, 0, NoSeed)
    /\ calls' = calls + 1
    /\ atCall' = container
    /\ UNCHANGED <<seeded, pc, params, container, outer_ix, ix, data_split,
                   inner_ix, yields, log>>

\* What identifies a seeded split: the dataset, its identifiers, the fractions
\* and the seed.
SeededKey(dc, dataset, column_header, tp, vp, seed) ==
    <<dataset, dc[dataset].column[column_header], tp, vp, seed[1]>>

Split ==
    /\ pc = "idle"
    /\ calls < MaxCalls
    /\ \E dataset \in DatasetNames, fr \in FractionPairs, seed \in Seeds :
         LET column_header == IF dataset \in DOMAIN information
                              THEN information[dataset].key ELSE "Subject"
             s == train_validate_test_split(dataCollection, data_splits, rng, dataset,
                                            column_header, fr[1], fr[2], seed)
             keyed == s.status = "ok" /\ seed # NoSeed
             key == SeededKey(dataCollection, dataset, column_header, fr[1], fr[2], seed)
             again == keyed /\ seeded # <<>> /\ seeded[1].key = key
         IN  /\ data_splits' = s.data_splits
             /\ rng' = s.rng
             /\ result' = Raised(s.status)
             /\ call' = [Call("split", dataset, column_header, fr[1], fr[2], seed)
                            EXCEPT !.repeat = again,
                                   !.perturbed = again /\ seeded[1].rngBefore # rng]
             /\ seeded' = IF keyed /\ seeded = <<>>
                          THEN <<[key |-> key, splits |-> s.data_splits[dataset],
                                  rngBefore |-> rng]>>
                          ELSE seeded
    /\ calls' = calls + 1
    /\ atCall' = container
    /\ UNCHANGED <<dataCollection, pc, params, container, outer_ix, ix, data_split,
                   inner_ix, yields, log>>

Next == AddDatasets \/ Split

Spec == Init /\ [][Next]_vars

\* ------------------------------------------------------------- accessor calls
GetData ==
    /\ pc = "idle"
    /\ calls < MaxCalls
    /\ \E dataset \in DatasetNames, key \in ColumnNames :
         /\ result' = get_data(dataCollection, dataset, key)
         /\ call' = Call("get_data", dataset, key, 0, 0, NoSeed)
    /\ calls' = calls + 1
    /\ atCall' = container
    /\ UNCHANGED <<storeVars, pc, params, container, outer_ix, ix, data_split,
                   inner_ix, yields, log>>

GetKeys ==
    /\ pc = "idle"
    /\ calls < MaxCalls
    /\ \E dataset \in DatasetNames :
         /\ result' = get_keys(dataCollection, dataset)
         /\ call' = Call("get_keys", dataset, "", 0, 0, NoSeed)
    /\ calls' = calls + 1
    /\ atCall' = container
    /\ UNCHANGED <<storeVars, pc, params, container, outer_ix, ix, data_split,
                   inner_ix, yields, log>>

NextQuery == AddDatasets \/ GetData \/ GetKeys

SpecQuery == Init /\ [][NextQuery]_vars

\* ------------------------------------------------------------- compile_dataset
\* line 159: the split names, enumerated from 0.
SplitNames == <<"train", "validation", "test">>

OuterIxStale(count, ix_before) == IF count = 0 THEN 0 ELSE ix_before + 1
\* line 159: `for ix, data_split in enumerate(...)` binds ix to the count of
\* the enumerate, whatever the inner loop left in ix.
OuterIx(count, ix_before) == count

\* line 162: 'subjects_' + data_split
SubjectsAttr(split) == "subjects_" \o split

\* line 168: data_split + '_' + d + '_' + str(ix)
DatasetName(split, d, i) == split \o "_" \o d \o "_" \o ToString(i)

\* line 163: the identifiers handed to extract_features.
ExtractArg(subjects) == Slice(subjects, 0, 2)

\* line 154: h5py.File(path, 'w') creates the file, or truncates the one there.
OpenTruncate(c) == [exists |-> TRUE, open |-> TRUE, attrs |-> <<>>, entries |-> <<>>]

LeaveOpen(c) == c
\* line 154: leaving the `with` block closes the file, however it is left.
Close(c) == [c EXCEPT !.open = FALSE]

\* The params records given to compile_dataset: the two keys it reads, and
\* possibly an option of the feature extractor.
ParamsSet ==
    {("dataset" :> d) @@ ("database_name" :> "db") : d \in DatasetNames}
    \cup {("dataset" :> d) @@ ("database_name" :> "db") @@ ("num_slices" :> "all") :
             d \in DatasetNames}

\* The feature names of one batch (label is optional).
BatchShapes == {{"image"}, {"image", "label"}}

ExtractEvent(split, arg) ==
    [ev |-> "extract", split |-> split, arg |-> arg, pos |-> 0, features |-> {},
     serial |-> 0]
YieldEvent(split, pos, features, serial) ==
    [ev |-> "yield", split |-> split, arg |-> <<>>, pos |-> pos,
     features |-> features, serial |-> serial]

\* The specification of compile_dataset follows one call of it, the first call
\* made on the object (calls = 0): the file is truncated when it is opened, so
\* a later call starts from the same file as this one does from OldContainer.
RaiseEvent(split) ==
    [ev |-> "raise", split |-> split, arg |-> <<>>, pos |-> 0, features |-> {},
     serial |-> 0]

\* lines 145-146: the registry has no entry for params['dataset'].
CompileUnregistered ==
    /\ pc = "idle"
    /\ calls = 0
    /\ \E p \in ParamsSet :
         /\ p["dataset"] \notin DOMAIN information
         /\ params' = p
         /\ call' = Call("compile", p["dataset"], "", 0, 0, NoSeed)
    /\ result' = Raised("KeyError")
    /\ calls' = calls + 1
    /\ atCall' = container
    /\ log' = <<>>
    /\ UNCHANGED <<storeVars, pc, container, outer_ix, ix, data_split, inner_ix, yields>>

\* line 154: the file cannot be created (not writable, locked).
CompileOpenFails ==
    /\ pc = "idle"
    /\ calls = 0
    /\ \E p \in ParamsSet :
         /\ p["dataset"] \in DOMAIN information
         /\ params' = p
         /\ call' = Call("compile", p["dataset"], "", 0, 0, NoSeed)
    /\ result' = Raised("OSError")
    /\ calls' = calls + 1
    /\ atCall' = container
    /\ log' = <<>>
    /\ UNCHANGED <<storeVars, pc, container, outer_ix, ix, data_split, inner_ix, yields>>

\* lines 145-154: up to the file being open.
CompileOpen ==
    /\ pc = "idle"
    /\ calls = 0
    /\ \E p \in ParamsSet :
         /\ p["dataset"] \in DOMAIN information
         /\ params' = p
         /\ call' = Call("compile", p["dataset"], "", 0, 0, NoSeed)
    /\ result' = NoValue
    /\ calls' = calls + 1
    /\ atCall' = container
    /\ container' = OpenTruncate(container)
    /\ pc' = "attrs"
    /\ outer_ix' = 0
    /\ ix' = 0
    /\ data_split' = ""
    /\ inner_ix' = 0
    /\ yields' = 0
    /\ log' = <<>>
    /\ UNCHANGED storeVars

\* lines 155-157: every key of params becomes an attribute.
WriteAttrs ==
    /\ pc = "attrs"
    /\ container' = [container EXCEPT !.attrs = params @@ container.attrs]
    /\ pc' = "outer"
    /\ UNCHANGED <<storeVars, calls, call, result, params, atCall, outer_ix, ix,
                   data_split, inner_ix, yields, log>>

\* line 157 raises on a value the file cannot hold, after the keys before it.
WriteAttrsFails ==
    /\ pc = "attrs"
    /\ \E written \in SUBSET (DOMAIN params) :
         /\ written # DOMAIN params
         /\ container' = Close([container EXCEPT
                !.attrs = [k \in written |-> params[k]] @@ container.attrs])
    /\ result' = Raised("TypeError")
    /\ pc' = "idle"
    /\ UNCHANGED <<storeVars, calls, call, params, atCall, outer_ix, ix,
                   data_split, inner_ix, yields, log>>

\* lines 159-164: the next split name; its subjects become an attribute and
\* extract_features is called.
NextSplit ==
    /\ pc = "outer"
    /\ outer_ix < Len(SplitNames)
    /\ params["dataset"] \in DOMAIN data_splits
    /\ LET i == OuterIx(outer_ix, ix)
           split == SplitNames[outer_ix + 1]
       IN  /\ ix' = i
           /\ data_split' = split
           /\ IF i + 1 > Len(data_splits[params["dataset"]])
              THEN /\ result' = Raised("IndexError")
                   /\ container' = Close(container)
                   /\ pc' = "idle"
                   /\ log' = log
              ELSE LET subjects == data_splits[params["dataset"]][i + 1]
                   IN  /\ container' = [container EXCEPT
                              !.attrs = (SubjectsAttr(split) :> subjects) @@ container.attrs]
                       /\ log' = Append(log, ExtractEvent(split, ExtractArg(subjects)))
                       /\ pc' = "inner"
                       /\ result' = result
    /\ inner_ix' = 0
    /\ UNCHANGED <<storeVars, calls, call, params, atCall, outer_ix, yields>>

\* line 161: the dataset has no split assignment.
MissingSplit ==
    /\ pc = "outer"
    /\ outer_ix < Len(SplitNames)
    /\ params["dataset"] \notin DOMAIN data_splits
    /\ ix' = OuterIx(outer_ix, ix)
    /\ data_split' = SplitNames[outer_ix + 1]
    /\ result' = Raised("KeyError")
    /\ container' = Close(container)
    /\ pc' = "idle"
    /\ UNCHANGED <<storeVars, calls, call, params, atCall, outer_ix, inner_ix, yields, log>>

\* lines 165-168: the extractor yields one more batch; each of its features
\* becomes a dataset of the file (create_dataset raises on a name in use).
ExtractorYields ==
    /\ pc = "inner"
    /\ yields < MaxYield
    /\ \E shape \in BatchShapes :
         LET names == {DatasetName(data_split, d, inner_ix) : d \in shape}
             new == [n \in names |->
                       [batch |-> yields,
                        feature |-> CHOOSE d \in shape :
                                       DatasetName(data_split, d, inner_ix) = n]]
         IN  /\ log' = Append(log, YieldEvent(data_split, inner_ix, shape, yields))
             /\ IF names \cap DOMAIN container.entries # {}
                   \/ Cardinality(names) # Cardinality(shape)
                THEN /\ result' = Raised("ValueError")
                     /\ container' = Close(container)
                     /\ pc' = "idle"
                ELSE /\ container' = [container EXCEPT !.entries = new @@ container.entries]
                     /\ pc' = "inner"
                     /\ result' = result
    /\ ix' = inner_ix
    /\ inner_ix' = inner_ix + 1
    /\ yields' = yields + 1
    /\ UNCHANGED <<storeVars, calls, call, params, atCall, outer_ix, data_split>>

ExtractorRaisesSwallowed ==
    /\ pc = "inner"
    /\ log' = Append(log, RaiseEvent(data_split))
    /\ pc' = "outer"
    /\ outer_ix' = outer_ix + 1
    /\ UNCHANGED <<storeVars, calls, call, result, params, container, atCall, ix,
                   data_split, inner_ix, yields>>
\* line 163 or 165: extract_features, or the iteration over what it returned,
\* raises; nothing in compile_dataset catches it.
ExtractorRaises ==
    /\ pc = "inner"
    /\ log' = Append(log, RaiseEvent(data_split))
    /\ result' = Raised("ExtractorError")
    /\ container' = Close(container)
    /\ pc' = "idle"
    /\ UNCHANGED <<storeVars, calls, call, params, atCall, outer_ix, ix, data_split,
                   inner_ix, yields>>

\* line 165: the extractor has no more batches for this split.
ExtractorDone ==
    /\ pc = "inner"
    /\ pc' = "outer"
    /\ outer_ix' = outer_ix + 1
    /\ UNCHANGED <<storeVars, calls, call, result, params, container, atCall, ix,
                   data_split, inner_ix, yields, log>>

\* The three splits are done: the `with` block ends and the call returns.
CompileReturns ==
    /\ pc = "outer"
    /\ outer_ix = Len(SplitNames)
    /\ container' = Close(container)
    /\ result' = NoValue
    /\ pc' = "idle"
    /\ UNCHANGED <<storeVars, calls, call, params, atCall, outer_ix, ix, data_split,
                   inner_ix, yields, log>>

\* A run of the program that compiles: the object is constructed, possibly next
\* to an output file of an earlier run.
InitCompile ==
    /\ container \in {NoContainer, OldContainer}
    /\ Constructed

NextCompile ==
    \/ CompileUnregistered
    \/ CompileOpenFails
    \/ CompileOpen
    \/ WriteAttrs
    \/ WriteAttrsFails
    \/ NextSplit
    \/ MissingSplit
    \/ ExtractorYields
    \/ ExtractorRaises
    \/ ExtractorDone
    \/ CompileReturns

SpecCompile == InitCompile /\ [][NextCompile]_vars

\* ------------------------------------------------------------- claims
SplitIndex(name) == CHOOSE i \in DOMAIN SplitNames : SplitNames[i] = name

Disjoint3(sp) ==
    /\ Range(sp[1]) \cap Range(sp[2]) = {}
    /\ Range(sp[1]) \cap Range(sp[3]) = {}
    /\ Range(sp[2]) \cap Range(sp[3]) = {}

KeyColumn(k) == dataCollection[k].column[information[k].key]

\* A partition of dataset k's identifiers into three sequences, none repeated.
IsPartition(k) ==
    LET sp == data_splits[k]
    IN  /\ Len(sp) = 3
        /\ Disjoint3(sp)
        /\ Range(sp[1]) \cup Range(sp[2]) \cup Range(sp[3]) = Range(KeyColumn(k))
        /\ Len(sp[1]) + Len(sp[2]) + Len(sp[3]) = Len(KeyColumn(k))

DefaultSizes(k) ==
    LET sp == data_splits[k]
        m == Cardinality(Range(KeyColumn(k)))
    IN  /\ Len(sp[1]) = (6 * m) \div 10
        /\ Len(sp[2]) = (2 * m) \div 10
        /\ Len(sp[3]) = m - Len(sp[1]) - Len(sp[2])
        /\ IsPartition(k)

DefaultSplitDone ==
    /\ call.name = "split"
    /\ result.status = "ok"
    /\ call.train_percent = DefaultTrain
    /\ call.valid_percent = DefaultValid

\* C1: after a completed split with fractions (0.6, 0.2) of a dataset with m
\* identifiers, train has floor(0.6 m) of them, validation floor(0.2 m), test
\* the rest, and the three are disjoint and make up the identifier set.  The
\* same holds of every dataset the constructor loaded.
C1_DefaultSplitSizes ==
    /\ DefaultSplitDone => DefaultSizes(call.dataset)
    /\ call.name = "__init__" => \A k \in DOMAIN data_splits : DefaultSizes(k)

C1_Witness ==
    /\ DefaultSplitDone
    /\ \A i \in 1..3 : Len(data_splits[call.dataset][i]) > 0

\* C2: a call of add_datasets that fails on an unregistered name leaves the
\* data collection and the split assignments as they were.
C2_AtomicRejection ==
    [][(call'.name = "add_datasets" /\ result'.status = "KeyError")
          => (dataCollection' = dataCollection /\ data_splits' = data_splits)]_vars

\* C3: every call of extract_features during a compile receives the whole
\* identifier sequence of its split.
C3_ExtractorGetsWholeSplit ==
    call.name = "compile" =>
        \A i \in DOMAIN log :
            log[i].ev = "extract" =>
                log[i].arg = data_splits[params["dataset"]][SplitIndex(log[i].split)]

CompileSucceeded == pc = "idle" /\ call.name = "compile" /\ result.status = "ok"

Yielded == {i \in DOMAIN log : log[i].ev = "yield"}

ExpectedEntryNames ==
    UNION {{log[i].split \o "_" \o d \o "_" \o ToString(log[i].pos) :
               d \in log[i].features} : i \in Yielded}

RaisedIn(split) == \E i \in DOMAIN log : log[i].ev = "raise" /\ log[i].split = split

\* C5: the splits are processed in the order train, validation, test, the
\* batches of a split written before the extraction of the next begins; an
\* extractor failure ends the compile at once, and one in the validation split
\* ends it in failure with no extraction for test and every train batch in
\* the (closed) file.
C5_ExtractorFailure ==
    /\ \A i, j \in DOMAIN log :
          i < j => SplitIndex(log[i].split) <= SplitIndex(log[j].split)
    /\ \A j \in Yielded :
          /\ \E i \in 1..(j - 1) : log[i].ev = "extract" /\ log[i].split = log[j].split
          /\ \A d \in log[j].features :
                (log[j].split \o "_" \o d \o "_" \o ToString(log[j].pos))
                    \in DOMAIN container.entries
    /\ \A i \in DOMAIN log : log[i].ev = "raise" => (i = Len(log) /\ pc = "idle")
    /\ RaisedIn("validation") =>
          /\ result.status = "ExtractorError"
          /\ ~container.open
          /\ container.exists
          /\ \A i \in DOMAIN log : log[i].split # "test"

C5_Witness ==
    /\ pc = "idle"
    /\ RaisedIn("validation")
    /\ \E i \in Yielded : log[i].split = "train"
    /\ \E i \in Yielded : log[i].split = "validation"

\* C6: a compile that fails because its dataset is unknown (no registry entry,
\* or no split assignment) leaves the file as it was before the call.
C6_UnknownKindNoIO ==
    (pc = "idle" /\ call.name = "compile" /\ result.status = "KeyError")
        => container = atCall

\* C7: between calls the file is closed, however the last compile ended, and
\* inside a compile it is open.
C7_ClosedBetweenCalls ==
    /\ pc = "idle" => ~container.open
    /\ pc # "idle" => container.open

C7_Witness ==
    /\ pc = "idle"
    /\ call.name = "compile"
    /\ result.status \in {"KeyError", "TypeError", "ExtractorError"}
    /\ container # atCall

C9_SeedReproducible ==
    (call.name = "split" /\ call.repeat) =>
        data_splits[call.dataset] = seeded[1].splits

C9_Witness ==
    /\ call.name = "split"
    /\ call.repeat
    /\ call.perturbed
    /\ Len(data_splits[call.dataset][1]) > 1

\* C10: every loaded dataset has one split assignment, and it partitions the
\* dataset's current identifiers.
C10_SplitPartition ==
    /\ DOMAIN data_splits = DOMAIN dataCollection
    /\ \A k \in DOMAIN dataCollection : IsPartition(k)

C10_Witness ==
    /\ call.name = "split"
    /\ result.status = "ok"
    /\ call.train_percent + call.valid_percent > 10
    /\ Len(KeyColumn(call.dataset)) = MaxSubjects
    /\ calls = MaxCalls

====
